---- MODULE Spec2Model ----
(***************************************************************************)
(* Billing subsystem of the inventory backend: bill creation with stock   *)
(* decrement, item completion, item void, bill cancellation and payment   *)
(* update (app/routes/billing_routes.py) over the Product, Bill, BillItem *)
(* and Payment tables (app/models).                                        *)
(*                                                                         *)
(* Money columns are Float in the source and are never rounded in storage. *)
(* Here every amount is an integer count of 1/Scale currency units, and    *)
(* prices, discounts and taxes are whole currency units, so that the two   *)
(* divisions by 100 of calculate_totals are exact.                         *)
(***************************************************************************)
EXTENDS Integers, Sequences, FiniteSets, TLC

VARIABLES
    products,       \* products table: id -> [name, sell_price, quantity, amount]
    bills,          \* bills table with each bill's items: id -> Bill
    payments,       \* payments table: a set of Payment rows
    nextBillId,     \* AUTO_INCREMENT of bills.id
    nextItemId,     \* AUTO_INCREMENT of bill_items.id
    nextPaymentId,  \* AUTO_INCREMENT of payments.id
    last,           \* the response of the handler that has just returned
    sess,           \* per client: the create_bill request in flight
    sold,           \* per product: units billed by committed create_bill calls
    completedEver   \* per product: units of the items ever marked completed

vars == <<products, bills, payments, nextBillId, nextItemId, nextPaymentId,
          last, sess, sold, completedEver>>

----------------------------------------------------------------------------
(* Bounds of the model *)

\* bills ever inserted by requests served one at a time
MaxBills == 1
\* bill_items rows ever inserted
MaxItems == 2
\* payments rows ever inserted
MaxPayments == 1
\* payments rows ever inserted where only payments are updated
MaxPaymentRows == 3

Scale == 100 * 100

ProductIds == {1, 2}
InitQuantity == (1 :> 5) @@ (2 :> 1)
InitSellPrice == (1 :> 100 * Scale) @@ (2 :> 50 * Scale)
\* name stands for the three descriptive columns: name, model, type
InitName == (1 :> "lamp") @@ (2 :> "fan")

\* the numbers random.choices can draw for a bill number
BillNumbers == {1, 2}
BillIds == 1..MaxBills
ItemIds == 1..MaxItems
Methods == {"cash"}
PaidAmounts == {0, 100 * Scale}
AdditionalAmounts == {}
\* discount, discountType, tax, taxType of a request
BillSettings ==
    { [discount |-> 10, discount_type |-> "percentage", tax |-> 5, tax_type |-> "percentage"],
      [discount |-> 500, discount_type |-> "amount", tax |-> 20, tax_type |-> "amount"] }
ClockValues == {0}
Clients == {"c1", "c2"}

\* the lines a request is made of: product 1 in two quantities, product 2,
\* a quantity of 0, and product 3, which has no row
RequestLines ==
    { [product_id |-> 1, quantity |-> 2], [product_id |-> 1, quantity |-> 3],
      [product_id |-> 2, quantity |-> 1], [product_id |-> 1, quantity |-> 0],
      [product_id |-> 3, quantity |-> 1] }
\* the requests: no line, one line, two lines
Requests ==
    {<<>>} \cup {<<a>> : a \in RequestLines} \cup {<<a, b>> : a, b \in RequestLines}

----------------------------------------------------------------------------
(* Bill.calculate_totals *)

\* the lines priced again from the products table
RECURSIVE SumCurrentPrices(_)
SumCurrentPrices(items) ==
    IF items = <<>> THEN 0
    ELSE (IF Head(items).product_id \in DOMAIN products
          THEN products[Head(items).product_id].sell_price * Head(items).quantity
          ELSE 0)
         + SumCurrentPrices(Tail(items))

\* sum(item.total for item in self.items)
RECURSIVE SumTotals(_)
SumTotals(items) ==
    IF items = <<>> THEN 0 ELSE Head(items).total + SumTotals(Tail(items))

\* a discount that is never more than the subtotal
DiscountCappedAtSubtotal(bill, subtotal) ==
    LET d == IF bill.discount_type = "percentage"
             THEN (subtotal * bill.discount) \div 100
             ELSE bill.discount * Scale
    IN  IF d > subtotal THEN subtotal ELSE d

DiscountAmount(bill, subtotal) ==
    IF bill.discount_type = "percentage"
    THEN (subtotal * bill.discount) \div 100
    ELSE bill.discount * Scale

\* the tax taken on the subtotal before the discount
TaxOnRawSubtotal(bill, subtotal) ==
    IF bill.tax_type = "percentage"
    THEN (subtotal * bill.tax) \div 100
    ELSE bill.tax * Scale

TaxAmount(bill, subtotal) ==
    IF bill.tax_type = "percentage"
    THEN ((subtotal - DiscountAmount(bill, subtotal)) * bill.tax) \div 100
    ELSE bill.tax * Scale

\* the difference without the floor at zero
SecondOnly(a, b) == b

Max(a, b) == IF a >= b THEN a ELSE b

\* the branches in the other order: nothing paid is pending whatever the total
PaymentStatusPendingFirst(paid, total) ==
    IF paid <= 0 THEN "pending"
    ELSE IF paid >= total THEN "paid"
    ELSE "partial"

PaymentStatus(paid, total) ==
    IF paid >= total THEN "paid"
    ELSE IF paid > 0 THEN "partial"
    ELSE "pending"

\* the collection the totals are summed over: self.items
TotalsItems(bill) == bill.items

CalculateTotals(bill) ==
    LET subtotal == SumTotals(TotalsItems(bill))
        total == subtotal - DiscountAmount(bill, subtotal) + TaxAmount(bill, subtotal)
    IN  [bill EXCEPT !.subtotal = subtotal,
                     !.total = total,
                     !.change_amount = Max(0, bill.paid_amount - total),
                     !.payment_status = PaymentStatus(bill.paid_amount, total)]

----------------------------------------------------------------------------
(* Rows *)

NewItem(id, product_id, product, quantity) ==
    [id |-> id,
     product_id |-> product_id,
     product_name |-> product.name,
     sell_price |-> product.sell_price,
     quantity |-> quantity,
     total |-> product.sell_price * quantity,
     item_status |-> "pending"]

\* the Bill object create_bill fills in, before calculate_totals
BillRow(bill_number, settings, paid, method, items) ==
    [bill_number |-> bill_number,
     discount |-> settings.discount,
     discount_type |-> settings.discount_type,
     tax |-> settings.tax,
     tax_type |-> settings.tax_type,
     subtotal |-> 0,
     total |-> 0,
     paid_amount |-> paid,
     change_amount |-> 0,
     payment_method |-> method,
     payment_status |-> "pending",
     items |-> items]

NewBill(bill_number, settings, paid, method, items) ==
    CalculateTotals(BillRow(bill_number, settings, paid, method, items))

\* payment_id is "PAY-<bill number>" or "PAY-<bill number>-<HHMMSS>"
NewPayment(id, bill_id, payment_id, amount, method, status) ==
    [id |-> id, bill_id |-> bill_id, payment_id |-> payment_id,
     amount |-> amount, method |-> method, status |-> status]

\* the first payment stored as completed whatever was paid
InitialStatusCompleted(bill) == "completed"

InitialPaymentStatus(bill) ==
    IF bill.paid_amount >= bill.total THEN "completed" ELSE "partial"

\* the new row takes the place of the bill's earlier payments
ReplacePayments(rows, payment) ==
    {q \in rows : q.bill_id # payment.bill_id} \cup {payment}

\* db.session.add(payment) and the commit: one more row
AddPayment(rows, payment) == rows \cup {payment}

BillPayments(bill_id) == {p \in payments : p.bill_id = bill_id}
PaymentIds == {p.payment_id : p \in payments}
UsedBillNumbers == {bills[b].bill_number : b \in DOMAIN bills}

Optional(S) == {<<>>} \cup {<<v>> : v \in S}
Get(opt, default) == IF opt = <<>> THEN default ELSE opt[1]

----------------------------------------------------------------------------
(* The session: writes are pending until commit, and a rollback drops them *)

\* an error path that returns without rolling the session back
SessionKeepsChanges(committed, working) == working

SessionRollback(committed, working) == committed

\* the stock check off by one
InsufficientStockOffByOne(product, quantity) == product.quantity + 1 < quantity

\* the stock check of one line
InsufficientStock(product, quantity) == product.quantity < quantity

\* a quantity check that lets 0 through
InvalidQuantityNegativeOnly(quantity) == quantity < 0

\* the quantity check of one line
InvalidQuantity(quantity) == quantity <= 0

\* an accepted line whose product is not decremented
AddLineWithoutDecrement(w, pid, quantity, id) ==
    [w EXCEPT !.items = Append(@, NewItem(id, pid, w.products[pid], quantity))]

\* an accepted line: the item is appended to the bill and the product's
\* quantity is decremented in the session
AddLine(w, pid, quantity, id) ==
    [w EXCEPT !.products[pid].quantity = @ - quantity,
              !.items = Append(@, NewItem(id, pid, w.products[pid], quantity))]

\* the loop over the request's lines in create_bill, from line i on; w is the
\* session's view: the products as this session has changed them so far, and
\* the items appended to the new bill
RECURSIVE AddItems(_, _, _, _)
AddItems(lines, i, firstItemId, w) ==
    IF i > Len(lines) THEN w
    ELSE LET pid == lines[i].product_id
             quantity == lines[i].quantity
         IN  IF pid \notin DOMAIN w.products
             THEN [w EXCEPT !.err = "ProductNotFound", !.failed_at = i]
             ELSE IF InvalidQuantity(quantity)
             THEN [w EXCEPT !.err = "InvalidQuantity", !.failed_at = i]
             ELSE IF InsufficientStock(w.products[pid], quantity)
             THEN [w EXCEPT !.err = "InsufficientStock", !.failed_at = i]
             ELSE AddItems(lines, i + 1, firstItemId,
                           AddLine(w, pid, quantity, firstItemId + Len(w.items)))

\* the flush writes each product the session changed with the quantity the
\* session computed: UPDATE products SET quantity = <value> WHERE id = <id>
FlushProducts(committed, working, lines) ==
    [p \in DOMAIN committed |->
        IF \E k \in DOMAIN lines : lines[k].product_id = p
        THEN [committed[p] EXCEPT !.quantity = working[p].quantity]
        ELSE committed[p]]

StartWork(prods) == [err |-> "", failed_at |-> 0, products |-> prods, items |-> <<>>]

\* a response, with the request it answers: the handler, the bill and item ids
\* of the URL, the lines of a created bill, the rows a void or cancel deleted,
\* the JSON body of a payment update
Response(op, result, bill, item) ==
    [op |-> op, result |-> result, bill |-> bill, item |-> item,
     lines |-> <<>>, items |-> <<>>, failed_at |-> 0, count |-> 0, request |-> <<>>]

\* round(x, 2): to the nearest hundredth of a currency unit
Round2(x) == ((x + (Scale \div 200)) \div (Scale \div 100)) * (Scale \div 100)

\* Product.calculate_values: the stored amount
CalculateValues(product) ==
    [product EXCEPT !.amount = Round2(product.sell_price * product.quantity)]

\* the products as create_product stored them
InitProducts ==
    [p \in ProductIds |->
        CalculateValues([name |-> InitName[p], sell_price |-> InitSellPrice[p],
                         quantity |-> InitQuantity[p], amount |-> 0])]

\* a create_bill request in flight: pc is "idle" before the request, "flush"
\* once the lines are read and checked, "payment" between the two commits and
\* "done" when the response is out
IdleSession ==
    [pc |-> "idle", result |-> "", bill_number |-> 0, bill_id |-> 0, lines |-> <<>>,
     work |-> StartWork(InitProducts), settings |-> <<>>, paid |-> 0, method |-> ""]

----------------------------------------------------------------------------
Init ==
    /\ products = InitProducts
    /\ bills = <<>>
    /\ payments = {}
    /\ nextBillId = 1
    /\ nextItemId = 1
    /\ nextPaymentId = 1
    /\ last = Response("none", "ok", 0, 0)
    /\ sess = [c \in Clients |-> IdleSession]
    /\ sold = [p \in ProductIds |-> 0]
    /\ completedEver = [p \in ProductIds |-> 0]

----------------------------------------------------------------------------
(* The handlers, each one request served alone from start to response *)

\* create_bill with an empty item list: rejected before anything is read
CreateBillEmpty ==
    /\ last' = Response("createBill", "EmptyBill", 0, 0)
    /\ UNCHANGED <<products, bills, payments, nextBillId, nextItemId, nextPaymentId, sess, sold, completedEver>>

\* create_bill where a line is refused: rollback and an error response
CreateBillRejected(lines) ==
    LET w == AddItems(lines, 1, nextItemId, StartWork(products)) IN
    /\ lines # <<>>
    /\ BillNumbers \ UsedBillNumbers # {}
    /\ w.err # ""
    /\ products' = SessionRollback(products, w.products)
    /\ last' = [Response("createBill", w.err, 0, 0) EXCEPT !.failed_at = w.failed_at]
    /\ UNCHANGED <<bills, payments, nextBillId, nextItemId, nextPaymentId, sess, sold, completedEver>>

\* create_bill where every line is accepted: the bill, its items and the stock
\* are committed, then the payment row in a commit of its own
CreateBill(lines, bill_number, settings, paid, method) ==
    LET w == AddItems(lines, 1, nextItemId, StartWork(products))
        bill == NewBill(bill_number, settings, paid, method, w.items)
        payment == NewPayment(nextPaymentId, nextBillId, <<bill_number>>, paid,
                              method, InitialPaymentStatus(bill))
        paymentFails == payment.payment_id \in PaymentIds
    IN
    /\ lines # <<>>
    /\ bill_number \notin UsedBillNumbers
    /\ w.err = ""
    /\ nextBillId <= MaxBills
    /\ nextItemId + Len(lines) - 1 <= MaxItems
    /\ paid > 0 => nextPaymentId <= MaxPayments
    /\ products' = FlushProducts(products, w.products, lines)
    /\ bills' = bills @@ (nextBillId :> bill)
    /\ nextBillId' = nextBillId + 1
    /\ nextItemId' = nextItemId + Len(w.items)
    /\ payments' = IF paid > 0 /\ ~paymentFails THEN AddPayment(payments, payment)
                    ELSE payments
    /\ nextPaymentId' = IF paid > 0 THEN nextPaymentId + 1 ELSE nextPaymentId
    /\ last' = [Response("createBill",
                         IF paid > 0 /\ paymentFails THEN "IntegrityError" ELSE "ok",
                         nextBillId, 0)
                  EXCEPT !.lines = lines]
    /\ UNCHANGED <<sess, sold, completedEver>>

\* the rows of a bill's items with one item's row changed
SetItemStatus(items, ids, status) ==
    [k \in DOMAIN items |->
        IF items[k].id \in ids THEN [items[k] EXCEPT !.item_status = status]
        ELSE items[k]]

ItemsOf(bill_id) == {bills[bill_id].items[k] : k \in DOMAIN bills[bill_id].items}
AllItems == UNION {ItemsOf(b) : b \in DOMAIN bills}
ItemRow(item_id) == CHOOSE it \in AllItems : it.id = item_id
\* BillItem.bill_id
BillOfItem(item_id) ==
    CHOOSE b \in DOMAIN bills : \E it \in ItemsOf(b) : it.id = item_id
ItemExists(item_id) == \E it \in AllItems : it.id = item_id

\* the 404 and 400 answers complete_bill_item and void_bill_item give before
\* they change anything; "" when the request passes them
ItemLookupError(bill_id, item_id) ==
    IF bill_id \notin DOMAIN bills THEN "NotFound"
    ELSE IF ~ItemExists(item_id) THEN "NotFound"
    ELSE IF BillOfItem(item_id) # bill_id THEN "NotInBill"
    ELSE ""

\* a status check that lets every item through
NeverAlreadyCompleted(item) == FALSE

\* complete_bill_item refuses an item that is not pending
AlreadyCompleted(item) == item.item_status # "pending"

\* the completion also marks the bill as paid
CompletedBillMarkedPaid(bill, ids) ==
    [bill EXCEPT !.items = SetItemStatus(@, ids, "completed"),
                 !.payment_status = "paid"]

\* the completion writes the bill's other items back as pending
CompletedBillOthersPending(bill, ids) ==
    [bill EXCEPT !.items =
        [k \in DOMAIN bill.items |->
            [bill.items[k] EXCEPT !.item_status =
                IF bill.items[k].id \in ids THEN "completed" ELSE "pending"]]]

\* the bill as the commit of a completion leaves it: the status of the items
\* named is set, and calculate_totals is not called
CompletedBill(bill, ids) ==
    [bill EXCEPT !.items = SetItemStatus(@, ids, "completed")]

\* the filter that leaves the status out: every item of the bill
PendingIdsAnyStatus(bill_id) == {it.id : it \in ItemsOf(bill_id)}

\* BillItem.query.filter_by(bill_id=bill_id, item_status='pending')
PendingIds(bill_id) == {it.id : it \in {x \in ItemsOf(bill_id) : x.item_status = "pending"}}

\* the units of product p in the rows named
RECURSIVE QuantityOf(_, _, _)
QuantityOf(items, ids, p) ==
    IF items = <<>> THEN 0
    ELSE (IF Head(items).id \in ids /\ Head(items).product_id = p
          THEN Head(items).quantity ELSE 0)
         + QuantityOf(Tail(items), ids, p)

\* complete_bill_item
CompleteItem(bill_id, item_id) ==
    LET err == ItemLookupError(bill_id, item_id) IN
    /\ IF err # ""
       THEN /\ last' = Response("completeItem", err, bill_id, item_id)
            /\ UNCHANGED <<bills, completedEver>>
       ELSE IF AlreadyCompleted(ItemRow(item_id))
       THEN /\ last' = Response("completeItem", "AlreadyCompleted", bill_id, item_id)
            /\ UNCHANGED <<bills, completedEver>>
       ELSE /\ bills' = [bills EXCEPT ![bill_id] = CompletedBill(@, {item_id})]
            /\ completedEver' =
                    [p \in ProductIds |->
                        completedEver[p] + QuantityOf(bills[bill_id].items, {item_id}, p)]
            /\ last' = Response("completeItem", "ok", bill_id, item_id)
    /\ UNCHANGED <<products, payments, nextBillId, nextItemId, nextPaymentId, sess, sold>>

\* complete_all_bill_items
CompleteAllItems(bill_id) ==
    /\ IF bill_id \notin DOMAIN bills
       THEN /\ last' = Response("completeAllItems", "NotFound", bill_id, 0)
            /\ UNCHANGED <<bills, completedEver>>
       ELSE IF PendingIds(bill_id) = {}
       THEN /\ last' = Response("completeAllItems", "NoPendingItems", bill_id, 0)
            /\ UNCHANGED <<bills, completedEver>>
       ELSE /\ bills' = [bills EXCEPT ![bill_id] =
                            CompletedBill(@, PendingIds(bill_id))]
            /\ completedEver' =
                    [p \in ProductIds |->
                        completedEver[p]
                            + QuantityOf(bills[bill_id].items, PendingIds(bill_id), p)]
            /\ last' = [Response("completeAllItems", "ok", bill_id, 0)
                          EXCEPT !.count = Cardinality(PendingIds(bill_id))]
    /\ UNCHANGED <<products, payments, nextBillId, nextItemId, nextPaymentId, sess, sold>>

\* update_bill_payment; a request field that is absent is <<>>, and hhmmss is
\* datetime.now().strftime('%H%M%S') at the call: the same value comes round
\* again within the second and every day after
UpdatePayment(bill_id, paidAmount, paymentMethod, additionalAmount, hhmmss) ==
    IF bill_id \notin DOMAIN bills
    THEN /\ last' = Response("updatePayment", "NotFound", bill_id, 0)
         /\ UNCHANGED <<products, bills, payments, nextBillId, nextItemId,
                        nextPaymentId, sess, sold, completedEver>>
    ELSE
    LET old == bills[bill_id]
        bill == CalculateTotals(
                    [old EXCEPT !.paid_amount = Get(paidAmount, old.paid_amount),
                                !.payment_method = Get(paymentMethod, old.payment_method)])
        payment == NewPayment(nextPaymentId, bill_id, <<bill.bill_number, hhmmss>>,
                              Get(additionalAmount, bill.paid_amount),
                              bill.payment_method, "completed")
        request == [paidAmount |-> paidAmount, paymentMethod |-> paymentMethod,
                    additionalAmount |-> additionalAmount, hhmmss |-> hhmmss]
    IN
    /\ nextPaymentId' = nextPaymentId + 1
    /\ IF payment.payment_id \in PaymentIds
       THEN \* the INSERT violates payments.payment_id's UNIQUE: rollback
            /\ bills' = SessionRollback(bills, [bills EXCEPT ![bill_id] = bill])
            /\ last' = [Response("updatePayment", "IntegrityError", bill_id, 0)
                          EXCEPT !.request = request]
            /\ UNCHANGED payments
       ELSE /\ bills' = [bills EXCEPT ![bill_id] = bill]
            /\ payments' = AddPayment(payments, payment)
            /\ last' = [Response("updatePayment", "ok", bill_id, 0)
                          EXCEPT !.request = request]
    /\ UNCHANGED <<products, nextBillId, nextItemId, sess, sold, completedEver>>

\* a cancel that restocks every item, completed or not
RECURSIVE CancelRestockAll(_, _)
CancelRestockAll(prods, items) ==
    IF items = <<>> THEN prods
    ELSE CancelRestockAll(
            [prods EXCEPT ![Head(items).product_id].quantity = @ + Head(items).quantity],
            Tail(items))

\* cancel_bill's loop over bill.items: stock goes back for items not completed
RECURSIVE CancelRestock(_, _)
CancelRestock(prods, items) ==
    IF items = <<>> THEN prods
    ELSE LET item == Head(items) IN
         CancelRestock(
            IF item.item_status # "completed" /\ item.product_id \in DOMAIN prods
            THEN [prods EXCEPT ![item.product_id].quantity = @ + item.quantity]
            ELSE prods,
            Tail(items))

\* Bill.payments has no delete cascade: deleting the bill sets bill_id of each
\* of its payments to NULL at flush, which payments.bill_id (NOT NULL) refuses
DeleteBillFails(bill_id) == BillPayments(bill_id) # {}

\* cancel_bill
CancelBill(bill_id) ==
    IF bill_id \notin DOMAIN bills
    THEN /\ last' = Response("cancelBill", "NotFound", bill_id, 0)
         /\ UNCHANGED <<products, bills, payments, nextBillId, nextItemId,
                        nextPaymentId, sess, sold, completedEver>>
    ELSE
    LET restocked == CancelRestock(products, bills[bill_id].items)
        refunded == {IF p.bill_id = bill_id THEN [p EXCEPT !.status = "refunded"] ELSE p
                        : p \in payments}
        deleted == [b \in DOMAIN bills \ {bill_id} |-> bills[b]]
    IN
    /\ IF DeleteBillFails(bill_id)
       THEN /\ products' = SessionRollback(products, restocked)
            /\ payments' = SessionRollback(payments, refunded)
            /\ bills' = SessionRollback(bills, deleted)
            /\ last' = Response("cancelBill", "IntegrityError", bill_id, 0)
       ELSE /\ products' = restocked
            /\ payments' = refunded
            /\ bills' = deleted
            /\ last' = [Response("cancelBill", "ok", bill_id, 0)
                          EXCEPT !.items = bills[bill_id].items]
    /\ UNCHANGED <<nextBillId, nextItemId, nextPaymentId, sess, sold, completedEver>>

\* a void that restocks whatever the item's status
VoidRestockAlways(prods, item) ==
    [prods EXCEPT ![item.product_id].quantity = @ + item.quantity]

\* void_bill_item: stock goes back unless the item is completed
VoidRestock(prods, item) ==
    IF item.item_status # "completed" /\ item.product_id \in DOMAIN prods
    THEN [prods EXCEPT ![item.product_id].quantity = @ + item.quantity]
    ELSE prods

\* bill.items loaded before the delete and not refreshed
ItemsStillLoaded(items, item_id) == items

\* bill.items as calculate_totals loads it after db.session.delete(item): the
\* lazy load autoflushes the DELETE first, so the voided row is not in it
ItemsAfterDelete(items, item_id) ==
    SelectSeq(items, LAMBDA it : it.id # item_id)

\* void_bill_item
VoidItem(bill_id, item_id) ==
    LET err == ItemLookupError(bill_id, item_id) IN
    IF err # ""
    THEN /\ last' = Response("voidItem", err, bill_id, item_id)
         /\ UNCHANGED <<products, bills, payments, nextBillId, nextItemId,
                        nextPaymentId, sess, sold, completedEver>>
    ELSE
    LET item == ItemRow(item_id)
        remaining == ItemsAfterDelete(bills[bill_id].items, item_id)
    IN
    /\ products' = VoidRestock(products, item)
    /\ bills' = [bills EXCEPT ![bill_id] =
                    [CalculateTotals([@ EXCEPT !.items = remaining])
                        EXCEPT !.items = SelectSeq(bills[bill_id].items,
                                                   LAMBDA it : it.id # item_id)]]
    /\ last' = [Response("voidItem", "ok", bill_id, item_id) EXCEPT !.items = <<item>>]
    /\ UNCHANGED <<payments, nextBillId, nextItemId, nextPaymentId, sess, sold, completedEver>>

----------------------------------------------------------------------------
NoResponse == Response("none", "ok", 0, 0)

\* the response is sent and the next request can be served
Deliver ==
    /\ last # NoResponse
    /\ last' = NoResponse
    /\ UNCHANGED <<products, bills, payments, nextBillId, nextItemId, nextPaymentId,
                   sess, sold, completedEver>>

\* requests are served one at a time
Serve(handler) == last = NoResponse /\ handler

Next ==
    \/ Deliver
    \/ Serve(CreateBillEmpty)
    \/ Serve(\E lines \in Requests : CreateBillRejected(lines))
    \/ Serve(\E lines \in Requests, bn \in BillNumbers :
                /\ AddItems(lines, 1, nextItemId, StartWork(products)).err = ""
                /\ \E settings \in BillSettings, paid \in PaidAmounts, method \in Methods :
                        CreateBill(lines, bn, settings, paid, method))
    \/ Serve(\E b \in BillIds, i \in ItemIds : CompleteItem(b, i))
    \/ Serve(\E b \in BillIds : CompleteAllItems(b))
    \/ Serve(\E b \in BillIds, paid \in Optional(PaidAmounts),
               method \in Optional(Methods), additional \in Optional(AdditionalAmounts),
               hhmmss \in ClockValues :
                 /\ b \in DOMAIN bills => nextPaymentId <= MaxPayments
                 /\ UpdatePayment(b, paid, method, additional, hhmmss))
    \/ Serve(\E b \in BillIds : CancelBill(b))
    \/ Serve(\E b \in BillIds, i \in ItemIds : VoidItem(b, i))

Spec == Init /\ [][Next]_vars

----------------------------------------------------------------------------
(* create_bill requests served concurrently, one per client, each in its own *)
(* session and transaction. A session reads the rows as committed when it   *)
(* reads them, keeps its changes to itself until it flushes, and commits     *)
(* twice: the bill with its items and the stock, then the payment.           *)

\* lines 144-205: the bill number is drawn and checked, the lines are read,
\* checked and applied in the session; a refused line rolls back and answers
BeginCreate(c, lines, bill_number, settings, paid, method) ==
    LET w == AddItems(lines, 1, 0, StartWork(products)) IN
    /\ sess[c].pc = "idle"
    /\ lines # <<>>
    /\ bill_number \notin UsedBillNumbers
    /\ sess' = [sess EXCEPT ![c] =
                  IF w.err # ""
                  THEN [IdleSession EXCEPT !.pc = "done", !.result = w.err,
                                           !.lines = lines]
                  ELSE [pc |-> "flush", result |-> "", bill_number |-> bill_number,
                        bill_id |-> 0, lines |-> lines, work |-> w,
                        settings |-> settings, paid |-> paid, method |-> method]]
    /\ UNCHANGED <<products, bills, payments, nextBillId, nextItemId, nextPaymentId,
                   last, sold, completedEver>>

\* the quantity the lines of a request ask of product p
RECURSIVE Requested(_, _)
Requested(lines, p) ==
    IF lines = <<>> THEN 0
    ELSE (IF Head(lines).product_id = p THEN Head(lines).quantity ELSE 0)
         + Requested(Tail(lines), p)

\* bills.bill_number without the UNIQUE constraint
NoUniqueViolation(bill_number) == FALSE

\* bills.bill_number is UNIQUE: the INSERT of a number that is stored fails
UniqueViolation(bill_number) == bill_number \in UsedBillNumbers

\* lines 207-212: the first commit. bills.bill_number is UNIQUE: a number a
\* concurrent request has committed meanwhile fails the INSERT, and the handler
\* rolls back and answers the error
CommitCreate(c) ==
    LET r == sess[c]
        items == [k \in DOMAIN r.work.items |->
                    [r.work.items[k] EXCEPT !.id = nextItemId + k - 1]]
        bill == NewBill(r.bill_number, r.settings, r.paid, r.method, items)
    IN
    /\ r.pc = "flush"
    /\ IF UniqueViolation(r.bill_number)
       THEN /\ sess' = [sess EXCEPT ![c].pc = "done", ![c].result = "IntegrityError"]
            /\ UNCHANGED <<products, bills, nextBillId, nextItemId, sold>>
       ELSE /\ products' = FlushProducts(products, r.work.products, r.lines)
            /\ bills' = bills @@ (nextBillId :> bill)
            /\ nextBillId' = nextBillId + 1
            /\ nextItemId' = nextItemId + Len(items)
            /\ sold' = [p \in ProductIds |-> sold[p] + Requested(r.lines, p)]
            /\ sess' = [sess EXCEPT ![c].bill_id = nextBillId,
                                    ![c].pc = IF r.paid > 0 THEN "payment" ELSE "done",
                                    ![c].result = IF r.paid > 0 THEN "" ELSE "ok"]
    /\ UNCHANGED <<payments, nextPaymentId, last, completedEver>>

\* lines 214-224: the payment row and the second commit
CommitPayment(c) ==
    LET r == sess[c]
        bill == bills[r.bill_id]
        payment == NewPayment(nextPaymentId, r.bill_id, <<r.bill_number>>,
                              bill.paid_amount, bill.payment_method,
                              InitialPaymentStatus(bill))
    IN
    /\ r.pc = "payment"
    /\ nextPaymentId' = nextPaymentId + 1
    /\ IF payment.payment_id \in PaymentIds
       THEN /\ sess' = [sess EXCEPT ![c].pc = "done", ![c].result = "IntegrityError"]
            /\ UNCHANGED payments
       ELSE /\ payments' = AddPayment(payments, payment)
            /\ sess' = [sess EXCEPT ![c].pc = "done", ![c].result = "ok"]
    /\ UNCHANGED <<products, bills, nextBillId, nextItemId, last, sold, completedEver>>

NextConcurrentCreate ==
    \/ \E c \in Clients, lines \in Requests, bn \in BillNumbers,
          settings \in BillSettings, paid \in PaidAmounts, method \in Methods :
            BeginCreate(c, lines, bn, settings, paid, method)
    \/ \E c \in Clients : CommitCreate(c)
    \/ \E c \in Clients : CommitPayment(c)

SpecConcurrentCreate == Init /\ [][NextConcurrentCreate]_vars

----------------------------------------------------------------------------
(* generate_unique_bill_number step by step: one client sends create_bill   *)
(* requests one after the other, and each request draws candidate numbers   *)
(* until one is not stored. The loop keeps no count of its attempts.        *)

\* requests of one line
BillNumberRequests == {<<a>> : a \in RequestLines}

\* lines 132-146: the request passes the empty checks and calls
\* generate_unique_bill_number
StartCreate(c, lines, settings, paid, method) ==
    /\ sess[c].pc \in {"idle", "done"}
    /\ sess' = [sess EXCEPT ![c] =
                  [IdleSession EXCEPT !.pc = "generate", !.lines = lines,
                                      !.settings = settings, !.paid = paid,
                                      !.method = method]]
    /\ UNCHANGED <<products, bills, payments, nextBillId, nextItemId, nextPaymentId,
                   last, sold, completedEver>>

\* one turn of the while True loop: a candidate is drawn and looked up; a
\* stored number sends the loop round again, a free one is returned and the
\* request goes on to read and check its lines
DrawBillNumber(c, candidate) ==
    LET r == sess[c]
        w == AddItems(r.lines, 1, 0, StartWork(products))
    IN
    /\ r.pc = "generate"
    /\ IF candidate \in UsedBillNumbers
       THEN UNCHANGED sess
       ELSE sess' = [sess EXCEPT ![c] =
                        IF w.err # ""
                        THEN [r EXCEPT !.pc = "done", !.result = w.err]
                        ELSE [r EXCEPT !.pc = "flush", !.bill_number = candidate,
                                       !.work = w]]
    /\ UNCHANGED <<products, bills, payments, nextBillId, nextItemId, nextPaymentId,
                   last, sold, completedEver>>

NextBillNumber ==
    \/ \E lines \in BillNumberRequests, settings \in BillSettings,
          paid \in PaidAmounts, method \in Methods :
            StartCreate("c1", lines, settings, paid, method)
    \/ \E candidate \in BillNumbers : DrawBillNumber("c1", candidate)
    \/ CommitCreate("c1")
    \/ CommitPayment("c1")

\* the request is served: a step that can be taken is taken in the end
SpecBillNumber == Init /\ [][NextBillNumber]_vars /\ WF_vars(NextBillNumber)

----------------------------------------------------------------------------
(* calculate_totals on its own, applied to a Bill object as create_bill has *)
(* filled it in from the request: one or two items, any discount and tax of *)
(* either type, any amount paid                                             *)

TotalsLines ==
    {[product_id |-> 1, quantity |-> q] : q \in 1..4} \cup {[product_id |-> 2, quantity |-> 1]}
TotalsRequests == {<<a>> : a \in TotalsLines} \cup {<<a, b>> : a, b \in TotalsLines}
\* discount with discountType and tax with taxType; a discount of 150 percent
\* or of 500 is more than some subtotals
TotalsDiscounts ==
    {<<0, "percentage">>, <<10, "percentage">>, <<150, "percentage">>,
     <<40, "amount">>, <<500, "amount">>}
TotalsTaxes == {<<0, "percentage">>, <<5, "percentage">>, <<20, "amount">>}
TotalsSettings ==
    {[discount |-> d[1], discount_type |-> d[2], tax |-> t[1], tax_type |-> t[2]] :
        d \in TotalsDiscounts, t \in TotalsTaxes}
TotalsPaid == {0, 378 * Scale, 400 * Scale}

\* the items create_bill appends for the lines, stock left aside
TotalsItemRows(lines) ==
    [k \in DOMAIN lines |->
        NewItem(k, lines[k].product_id, InitProducts[lines[k].product_id],
                lines[k].quantity)]

InitTotals ==
    /\ products = InitProducts
    /\ \E lines \in TotalsRequests, settings \in TotalsSettings, paid \in TotalsPaid :
            bills = (1 :> BillRow(1, settings, paid, "cash", TotalsItemRows(lines)))
    /\ payments = {}
    /\ nextBillId = 1
    /\ nextItemId = 1
    /\ nextPaymentId = 1
    /\ last = Response("none", "ok", 0, 0)
    /\ sess = [c \in Clients |-> IdleSession]
    /\ sold = [p \in ProductIds |-> 0]
    /\ completedEver = [p \in ProductIds |-> 0]

\* bill.calculate_totals()
ApplyCalculateTotals ==
    /\ last.op = "none"
    /\ bills' = [bills EXCEPT ![1] = CalculateTotals(@)]
    /\ last' = Response("calculateTotals", "ok", 1, 0)
    /\ UNCHANGED <<products, payments, nextBillId, nextItemId, nextPaymentId, sess, sold, completedEver>>

NextTotals == ApplyCalculateTotals

SpecTotals == InitTotals /\ [][NextTotals]_vars

----------------------------------------------------------------------------
(* Item completion on two stored bills: the state after two create_bill     *)
(* requests served one after the other, then complete_bill_item and         *)
(* complete_all_bill_items in any order                                     *)

InitComplete ==
    \E lines1, lines2 \in Requests \ {<<>>}, settings \in BillSettings, paid \in PaidAmounts :
        LET w1 == AddItems(lines1, 1, 1, StartWork(InitProducts))
            after1 == FlushProducts(InitProducts, w1.products, lines1)
            w2 == AddItems(lines2, 1, 1 + Len(lines1), StartWork(after1))
            bill1 == NewBill(1, settings, paid, "cash", w1.items)
            bill2 == NewBill(2, settings, 0, "cash", w2.items)
        IN  /\ w1.err = ""
            /\ w2.err = ""
            /\ products = FlushProducts(after1, w2.products, lines2)
            /\ bills = (1 :> bill1) @@ (2 :> bill2)
            /\ payments = IF paid > 0
                          THEN {NewPayment(1, 1, <<1>>, paid, "cash",
                                           InitialPaymentStatus(bill1))}
                          ELSE {}
            /\ nextBillId = 3
            /\ nextItemId = 1 + Len(lines1) + Len(lines2)
            /\ nextPaymentId = IF paid > 0 THEN 2 ELSE 1
            /\ last = Response("none", "ok", 0, 0)
            /\ sess = [c \in Clients |-> IdleSession]
            /\ sold = [p \in ProductIds |-> 0]
            /\ completedEver = [p \in ProductIds |-> 0]

NextComplete ==
    \/ Deliver
    \/ Serve(\E b \in 1..nextBillId, i \in 1..nextItemId : CompleteItem(b, i))
    \/ Serve(\E b \in 1..nextBillId : CompleteAllItems(b))

SpecComplete == InitComplete /\ [][NextComplete]_vars

----------------------------------------------------------------------------
(* Payments of one stored bill: the state after one create_bill request,    *)
(* then update_bill_payment with any body at any second, and cancel_bill    *)

PaymentAmounts == {0, 100 * Scale, 400 * Scale}
PaymentMethods == {"cash", "card"}
PaymentAdditional == {50 * Scale}
PaymentClock == {0, 1}

InitPayments ==
    \E lines \in Requests \ {<<>>}, settings \in BillSettings, paid \in PaidAmounts :
        LET w == AddItems(lines, 1, 1, StartWork(InitProducts))
            bill == NewBill(1, settings, paid, "cash", w.items)
        IN  /\ w.err = ""
            /\ products = FlushProducts(InitProducts, w.products, lines)
            /\ bills = (1 :> bill)
            /\ payments = IF paid > 0
                          THEN {NewPayment(1, 1, <<1>>, paid, "cash",
                                           InitialPaymentStatus(bill))}
                          ELSE {}
            /\ nextBillId = 2
            /\ nextItemId = 1 + Len(lines)
            /\ nextPaymentId = IF paid > 0 THEN 2 ELSE 1
            /\ last = Response("none", "ok", 0, 0)
            /\ sess = [c \in Clients |-> IdleSession]
            /\ sold = [p \in ProductIds |-> 0]
            /\ completedEver = [p \in ProductIds |-> 0]

NextPayments ==
    \/ Deliver
    \/ Serve(\E b \in 1..nextBillId, paid \in Optional(PaymentAmounts),
               method \in Optional(PaymentMethods),
               additional \in Optional(PaymentAdditional), hhmmss \in PaymentClock :
                 /\ b \in DOMAIN bills => nextPaymentId <= MaxPaymentRows
                 /\ UpdatePayment(b, paid, method, additional, hhmmss))
    \/ Serve(\E b \in 1..nextBillId : CancelBill(b))

SpecPayments == InitPayments /\ [][NextPayments]_vars

----------------------------------------------------------------------------
(* Product edits beside one stored bill: update_product on a product the    *)
(* bill has items of, and void_bill_item and update_bill_payment, which     *)
(* recompute the bill's totals                                              *)

ProductEditNames == {"lamp v2"}
ProductEditPrices == {0, 120 * Scale, 0 - Scale}
ProductEditQuantities == {7}

\* a JSON value that Python takes as true
Truthy(opt) == opt # <<>> /\ opt[1] # 0

\* validate_product_data on the request body; buyPrice is left out of it
ProductDataErrors(name, sellPrice, quantity) ==
    \/ name = <<>>
    \/ Get(sellPrice, 0) < 0
    \/ Get(quantity, 0) < 0

\* update_product
UpdateProduct(id, name, sellPrice, quantity) ==
    /\ IF id \notin DOMAIN products
       THEN /\ last' = Response("updateProduct", "NotFound", 0, id)
            /\ UNCHANGED products
       ELSE IF (Truthy(sellPrice) \/ Truthy(quantity))
                /\ ProductDataErrors(name, sellPrice, quantity)
       THEN /\ last' = Response("updateProduct", "ValidationError", 0, id)
            /\ UNCHANGED products
       ELSE LET old == products[id] IN
            /\ products' =
                [products EXCEPT ![id] =
                    CalculateValues([old EXCEPT !.name = Get(name, old.name),
                                                !.sell_price = Get(sellPrice, old.sell_price),
                                                !.quantity = Get(quantity, old.quantity)])]
            /\ last' = Response("updateProduct", "ok", 0, id)
    /\ UNCHANGED <<bills, payments, nextBillId, nextItemId, nextPaymentId, sess, sold,
                   completedEver>>

NextProductEdit ==
    \/ Deliver
    \/ Serve(\E id \in {1, 3}, name \in Optional(ProductEditNames),
               sellPrice \in Optional(ProductEditPrices),
               quantity \in Optional(ProductEditQuantities) :
                 UpdateProduct(id, name, sellPrice, quantity))
    \/ Serve(\E b \in 1..nextBillId, i \in 1..nextItemId : VoidItem(b, i))
    \/ Serve(\E b \in 1..nextBillId, paid \in Optional(PaidAmounts), hhmmss \in ClockValues :
                 /\ b \in DOMAIN bills => nextPaymentId <= MaxPaymentRows
                 /\ UpdatePayment(b, paid, <<>>, <<>>, hhmmss))

SpecProductEdit == InitPayments /\ [][NextProductEdit]_vars

----------------------------------------------------------------------------
(* A create_bill and a void_bill_item served concurrently beside one stored *)
(* bill, each in its own session: each reads the product row when it starts *)
(* and its flush writes the quantity it computed from what it read. The     *)
(* void is of an item of the bill stored before the two requests began.     *)

\* lines 688-704: the bill, the item and the product are read, the restock is
\* applied in the session
BeginVoid(c, bill_id, item_id) ==
    LET err == ItemLookupError(bill_id, item_id)
        item == ItemRow(item_id)
        line == [product_id |-> item.product_id, quantity |-> item.quantity]
    IN
    /\ sess[c].pc = "idle"
    /\ sess' = [sess EXCEPT ![c] =
                  IF err # ""
                  THEN [IdleSession EXCEPT !.pc = "done", !.result = err]
                  ELSE [IdleSession EXCEPT
                            !.pc = "void", !.bill_id = bill_id,
                            !.lines = IF item.item_status # "completed"
                                      THEN <<line>> ELSE <<>>,
                            !.work = [StartWork(VoidRestock(products, item))
                                        EXCEPT !.items = <<item>>]]]
    /\ UNCHANGED <<products, bills, payments, nextBillId, nextItemId, nextPaymentId,
                   last, sold, completedEver>>

\* lines 704-706: the flush and the commit of the void
CommitVoid(c) ==
    LET r == sess[c]
        item_id == r.work.items[1].id
        remaining == ItemsAfterDelete(bills[r.bill_id].items, item_id)
    IN
    /\ r.pc = "void"
    /\ products' = FlushProducts(products, r.work.products, r.lines)
    /\ bills' = [bills EXCEPT ![r.bill_id] = CalculateTotals([@ EXCEPT !.items = remaining])]
    /\ sess' = [sess EXCEPT ![c].pc = "done", ![c].result = "ok"]
    /\ UNCHANGED <<payments, nextBillId, nextItemId, nextPaymentId, last, sold,
                   completedEver>>

NextConcurrentStock ==
    \/ \E lines \in BillNumberRequests, bn \in BillNumbers, settings \in BillSettings,
          paid \in PaidAmounts, method \in Methods :
            BeginCreate("c1", lines, bn, settings, paid, method)
    \/ CommitCreate("c1")
    \/ CommitPayment("c1")
    \/ \E i \in 1..nextItemId : BeginVoid("c2", 1, i)
    \/ CommitVoid("c2")

SpecConcurrentStock == InitPayments /\ [][NextConcurrentStock]_vars

----------------------------------------------------------------------------
(* Properties *)

\* line price x quantity, summed over the rows
RECURSIVE ClaimSubtotal(_)
ClaimSubtotal(items) ==
    IF items = <<>> THEN 0
    ELSE Head(items).sell_price * Head(items).quantity + ClaimSubtotal(Tail(items))

ClaimDiscount(bill, subtotal) ==
    IF bill.discount_type = "percentage" THEN (subtotal * bill.discount) \div 100
    ELSE bill.discount * Scale

ClaimTax(bill, subtotal) ==
    IF bill.tax_type = "percentage"
    THEN ((subtotal - ClaimDiscount(bill, subtotal)) * bill.tax) \div 100
    ELSE bill.tax * Scale

ClaimTotal(bill, subtotal) ==
    subtotal - ClaimDiscount(bill, subtotal) + ClaimTax(bill, subtotal)

\* the quantity of product p in the rows that are not completed
RECURSIVE NotCompletedQuantity(_, _)
NotCompletedQuantity(items, p) ==
    IF items = <<>> THEN 0
    ELSE (IF Head(items).product_id = p /\ Head(items).item_status # "completed"
          THEN Head(items).quantity ELSE 0)
         + NotCompletedQuantity(Tail(items), p)

Without(items, item_id) == SelectSeq(items, LAMBDA it : it.id # item_id)

\* a void request that names an item of the bill, and that item's row
VoidOf(status) ==
    /\ last'.op = "voidItem"
    /\ ItemLookupError(last'.bill, last'.item) = ""
    /\ ItemRow(last'.item).item_status = status

\* C1: when the create_bill requests that run concurrently ask together for
\* more of a product than its stock, the units billed by the requests that
\* succeeded do not exceed the initial stock, and once every request has
\* answered the stock is the initial stock minus the units billed, and not
\* negative.
C1_ConcurrentCreatesNeverOversell ==
    (\A c \in Clients : sess[c].pc = "done") =>
        \A p \in ProductIds :
            Requested(sess["c1"].lines, p) + Requested(sess["c2"].lines, p)
                > InitQuantity[p] =>
                    /\ sold[p] <= InitQuantity[p]
                    /\ products[p].quantity = InitQuantity[p] - sold[p]
                    /\ products[p].quantity >= 0

\* C2: every product's quantity is >= 0 in every state reachable by the
\* billing handlers.
C2_StockNeverNegative == \A p \in ProductIds : products[p].quantity >= 0

\* a create_bill that took the last unit of a product
C2_Witness ==
    /\ last.op = "createBill" /\ last.result = "ok"
    /\ \E p \in ProductIds : products[p].quantity = 0

\* C3: a successful create_bill lowers each product's stock by the sum of the
\* quantities its lines ask of that product, creates one pending item per line
\* in the order of the lines, and leaves no quantity negative.
C3_CreateBillDecrementsPerLine ==
    [][(last'.op = "createBill" /\ last'.result = "ok") =>
        LET lines == last'.lines
            items == bills'[last'.bill].items
        IN  /\ last'.bill \notin DOMAIN bills
            /\ Len(items) = Len(lines)
            /\ \A k \in DOMAIN lines :
                /\ items[k].product_id = lines[k].product_id
                /\ items[k].quantity = lines[k].quantity
                /\ items[k].item_status = "pending"
                /\ k > 1 => items[k - 1].id < items[k].id
            /\ \A p \in ProductIds :
                /\ products'[p].quantity = products[p].quantity - Requested(lines, p)
                /\ products'[p].quantity >= 0]_vars

\* a created bill with the same product on two lines
C3_Witness ==
    /\ last.op = "createBill" /\ last.result = "ok"
    /\ Len(last.lines) = 2
    /\ last.lines[1].product_id = last.lines[2].product_id

\* C4: a create_bill refused on a line (unknown product, quantity <= 0,
\* insufficient stock) creates no bill, item or payment and leaves every
\* product's stock as it was before the call.
C4_RefusedCreateChangesNothing ==
    [][(/\ last'.op = "createBill"
        /\ last'.result \in {"ProductNotFound", "InvalidQuantity", "InsufficientStock"})
        => /\ products' = products
           /\ bills' = bills
           /\ payments' = payments]_vars

\* a request refused on its second line, after the first line was applied
C4_Witness ==
    /\ last.op = "createBill"
    /\ last.result = "InsufficientStock"
    /\ last.failed_at = 2

\* C5: create_bill commits the stock, the bill, its items and its payment
\* together or not at all: no request has answered an error while its bill is
\* stored, and no bill created with paidAmount > 0 is without its payment.
C5_CreateBillCommitsAtOnce ==
    /\ \A c \in Clients :
        sess[c].result \notin {"", "ok"} => sess[c].bill_id \notin DOMAIN bills
    /\ \A b \in DOMAIN bills :
        bills[b].paid_amount > 0 =>
            \E p \in payments :
                p.bill_id = b /\ p.payment_id = <<bills[b].bill_number>>

\* C6: a successful cancel_bill adds to each product the quantity of the
\* bill's items on it that are not completed, and nothing for completed items.
C6_CancelRestocksNotCompleted ==
    [][(last'.op = "cancelBill" /\ last'.result = "ok") =>
        \A p \in ProductIds :
            products'[p].quantity =
                products[p].quantity + NotCompletedQuantity(bills[last'.bill].items, p)]_vars

\* a cancelled bill of a pending item of 3 and a completed item of 2 on
\* product 1: 3 units came back
C6_Witness ==
    /\ last.op = "cancelBill" /\ last.result = "ok"
    /\ Len(last.items) = 2
    /\ \E i, j \in 1..2 :
        /\ last.items[i].item_status = "pending" /\ last.items[i].quantity = 3
        /\ last.items[j].item_status = "completed" /\ last.items[j].quantity = 2
        /\ last.items[i].product_id = 1 /\ last.items[j].product_id = 1
    /\ products[1].quantity = 3

\* C7: cancel_bill on an existing bill, with payments or without, succeeds:
\* the bill is gone and each of its payments is refunded.
C7_CancelAlwaysSucceeds ==
    [][(last'.op = "cancelBill" /\ last'.bill \in DOMAIN bills) =>
        /\ last'.result = "ok"
        /\ last'.bill \notin DOMAIN bills'
        /\ \A p \in payments :
            p.bill_id = last'.bill =>
                \E q \in payments' : q.id = p.id /\ q.status = "refunded"]_vars

C9_VoidPendingRestocksAndRecomputes ==
    [][VoidOf("pending") =>
        LET item == ItemRow(last'.item)
            remaining == Without(bills[last'.bill].items, last'.item)
        IN
        /\ last'.result = "ok"
        /\ products' = [products EXCEPT ![item.product_id].quantity = @ + item.quantity]
        /\ bills'[last'.bill].items = remaining
        /\ bills'[last'.bill].subtotal = ClaimSubtotal(remaining)
        /\ bills'[last'.bill].total =
                ClaimTotal(bills[last'.bill], ClaimSubtotal(remaining))]_vars

\* a pending item was voided from a bill that keeps another item
C9_Witness ==
    /\ last.op = "voidItem" /\ last.result = "ok"
    /\ last.items[1].item_status = "pending"
    /\ bills[last.bill].items # <<>>

\* C10: every stored bill's subtotal is the sum of the line totals of the
\* items it has, and its total is subtotal - discount amount + tax amount.
C10_StoredTotalsMatchItems ==
    \A b \in DOMAIN bills :
        /\ bills[b].subtotal = ClaimSubtotal(bills[b].items)
        /\ bills[b].total = ClaimTotal(bills[b], bills[b].subtotal)

\* a payment update on a bill of two items with a percentage discount and tax
C10_Witness ==
    /\ last.op = "updatePayment" /\ last.result = "ok"
    /\ Len(bills[last.bill].items) = 2
    /\ bills[last.bill].discount_type = "percentage"
    /\ bills[last.bill].total # bills[last.bill].subtotal

\* every item row of a bills table
ClaimItems(bs) == UNION {{bs[b].items[k] : k \in DOMAIN bs[b].items} : b \in DOMAIN bs}

\* a bill with the status of its items left out
IgnoringItemStatus(bill) ==
    [bill EXCEPT !.items =
        [k \in DOMAIN bill.items |-> [bill.items[k] EXCEPT !.item_status = ""]]]

ClaimChange(paid, total) == IF paid - total > 0 THEN paid - total ELSE 0

\* C11: calculate_totals stores subtotal = the sum of the line totals and
\* total = subtotal - discountAmount + taxAmount, where discountAmount is
\* subtotal*discount/100 for a percentage and discount otherwise, and taxAmount
\* is (subtotal - discountAmount)*tax/100 for a percentage and tax otherwise;
\* the total is not floored at zero; price 100, quantity 4, discount 10 percent
\* and tax 5 percent give subtotal 400 and total 400 - 40 + 18 = 378.
C11_TotalsArithmetic ==
    last.op = "calculateTotals" =>
        LET bill == bills[last.bill]
            subtotal == ClaimSubtotal(bill.items)
            discountAmount == ClaimDiscount(bill, subtotal)
            taxAmount == ClaimTax(bill, subtotal)
        IN  /\ bill.subtotal = subtotal
            /\ bill.total = subtotal - discountAmount + taxAmount
            /\ discountAmount > subtotal + taxAmount => bill.total < 0
            /\ (/\ Len(bill.items) = 1
                /\ bill.items[1].sell_price = 100 * Scale
                /\ bill.items[1].quantity = 4
                /\ bill.discount = 10 /\ bill.discount_type = "percentage"
                /\ bill.tax = 5 /\ bill.tax_type = "percentage")
               => /\ bill.subtotal = 400 * Scale
                  /\ bill.subtotal - bill.total = (40 - 18) * Scale
                  /\ bill.total = 378 * Scale

\* the totals of 4 units at 100 with 10 percent off and 5 percent tax
C11_Witness ==
    /\ last.op = "calculateTotals"
    /\ Len(bills[1].items) = 1
    /\ bills[1].items[1].quantity = 4
    /\ bills[1].discount = 10 /\ bills[1].discount_type = "percentage"
    /\ bills[1].tax = 5 /\ bills[1].tax_type = "percentage"
    /\ bills[1].total = 378 * Scale

\* C12: after create_bill or update_bill_payment the bill's change_amount is
\* max(0, paid_amount - total), and its payment_status is paid exactly when
\* paid_amount >= total and partial exactly when 0 < paid_amount < total.
C12_ChangeAndStatusAfterPayment ==
    [][(last'.op \in {"createBill", "updatePayment"} /\ last'.bill \in DOMAIN bills') =>
        LET bill == bills'[last'.bill] IN
        /\ bill.change_amount = ClaimChange(bill.paid_amount, bill.total)
        /\ bill.payment_status = "paid" <=> bill.paid_amount >= bill.total
        /\ bill.payment_status = "partial" <=>
                (0 < bill.paid_amount /\ bill.paid_amount < bill.total)]_vars

\* a payment update that left change to give back
C12_Witness ==
    /\ last.op = "updatePayment" /\ last.result = "ok"
    /\ bills[last.bill].change_amount > 0
    /\ bills[last.bill].payment_status = "paid"

\* C13 as stated: every bill with paid_amount 0 has payment_status pending,
\* whatever its total.
C13_ZeroPaidIsPending ==
    \A b \in DOMAIN bills :
        bills[b].paid_amount = 0 => bills[b].payment_status = "pending"

\* C13 as amended: a bill with paid_amount 0 has payment_status pending when
\* its total is more than 0, and paid when its total is 0 or negative.
C13_ZeroPaidPendingWhenOwed ==
    \A b \in DOMAIN bills :
        bills[b].paid_amount = 0 =>
            /\ bills[b].total > 0 => bills[b].payment_status = "pending"
            /\ bills[b].total <= 0 => bills[b].payment_status = "paid"

\* the last item of an unpaid bill was voided: the total is 0
C13_Witness ==
    /\ last.op = "voidItem" /\ last.result = "ok"
    /\ bills[last.bill].items = <<>>
    /\ bills[last.bill].paid_amount = 0
    /\ bills[last.bill].total = 0

\* C14: complete_bill_item on an item of the bill that is not pending answers
\* an error and changes no item, bill or stock; on a pending item of the bill
\* it sets that item's status to completed.
C14_CompleteItemOnlyFromPending ==
    [][(last'.op = "completeItem" /\ ItemLookupError(last'.bill, last'.item) = "") =>
        IF ItemRow(last'.item).item_status # "pending"
        THEN /\ last'.result # "ok"
             /\ bills' = bills
             /\ products' = products
        ELSE /\ last'.result = "ok"
             /\ \E it \in ClaimItems(bills') :
                    it.id = last'.item /\ it.item_status = "completed"]_vars

\* a second completion of the same item was refused
C14_Witness ==
    /\ last.op = "completeItem" /\ last.result = "AlreadyCompleted"
    /\ ItemRow(last.item).item_status = "completed"

\* C15: complete_bill_item and complete_all_bill_items change item statuses
\* and nothing else: every product, every payment, and every bill but for the
\* status of its items are as before the call.
C15_CompletionChangesOnlyStatus ==
    [][(last'.op \in {"completeItem", "completeAllItems"}) =>
        /\ products' = products
        /\ payments' = payments
        /\ DOMAIN bills' = DOMAIN bills
        /\ \A b \in DOMAIN bills :
                IgnoringItemStatus(bills'[b]) = IgnoringItemStatus(bills[b])]_vars

\* all items of a bill with a payment, not fully paid, were completed at once
C15_Witness ==
    /\ last.op = "completeAllItems" /\ last.result = "ok"
    /\ last.count = 2
    /\ BillPayments(last.bill) # {}
    /\ bills[last.bill].payment_status = "partial"

\* C16: complete_all_bill_items on a bill with a pending item sets every
\* pending item of the bill to completed, reports the number of items of the
\* bill that were pending, and changes no other bill; on a bill with no pending
\* item it answers an error and changes nothing.
C16_CompleteAllCountsPending ==
    [][(last'.op = "completeAllItems" /\ last'.bill \in DOMAIN bills) =>
        LET b == last'.bill
            pending == {it \in ClaimItems(bills) :
                            BillOfItem(it.id) = b /\ it.item_status = "pending"}
        IN  IF pending # {}
            THEN /\ last'.result = "ok"
                 /\ last'.count = Cardinality(pending)
                 /\ \A k \in DOMAIN bills'[b].items :
                        bills'[b].items[k].item_status = "completed"
                 /\ \A other \in DOMAIN bills \ {b} : bills'[other] = bills[other]
            ELSE /\ last'.result # "ok"
                 /\ bills' = bills
                 /\ products' = products
                 /\ payments' = payments]_vars

\* one pending item of a bill of two was completed, the other bill keeps a
\* pending item
C16_Witness ==
    /\ last.op = "completeAllItems" /\ last.result = "ok"
    /\ last.count = 1
    /\ Len(bills[last.bill].items) = 2
    /\ \E other \in DOMAIN bills \ {last.bill} :
            \E k \in DOMAIN bills[other].items :
                bills[other].items[k].item_status = "pending"

\* C17: the status of an item that stays in the table changes only from
\* pending to completed; a completed item is never pending again.
C17_ItemStatusOneWay ==
    [][\A it \in ClaimItems(bills), next \in ClaimItems(bills') :
            (it.id = next.id /\ it.item_status # next.item_status) =>
                (it.item_status = "pending" /\ next.item_status = "completed")]_vars

\* the second item of a bill was completed after the first
C17_Witness ==
    /\ last.op = "completeItem" /\ last.result = "ok"
    /\ Len(bills[last.bill].items) = 2
    /\ \A k \in 1..2 : bills[last.bill].items[k].item_status = "completed"

\* C18: update_bill_payment on an existing bill succeeds; it sets paid_amount
\* and payment_method to the values given, stores the total, change and status
\* recomputed, inserts exactly one payment, of status completed, and changes
\* no product and no item.
C18_UpdatePaymentOverwritesAndAppends ==
    [][(last'.op = "updatePayment" /\ last'.bill \in DOMAIN bills) =>
        LET b == last'.bill
            old == bills[b]
            new == bills'[b]
            req == last'.request
        IN  /\ last'.result = "ok"
            /\ new.paid_amount = Get(req.paidAmount, old.paid_amount)
            /\ new.payment_method = Get(req.paymentMethod, old.payment_method)
            /\ new.total = ClaimTotal(old, ClaimSubtotal(old.items))
            /\ new.change_amount = ClaimChange(new.paid_amount, new.total)
            /\ new.payment_status =
                    (IF new.paid_amount >= new.total THEN "paid"
                     ELSE IF new.paid_amount > 0 THEN "partial" ELSE "pending")
            /\ \E p \in payments' \ payments :
                    /\ payments' = payments \cup {p}
                    /\ p.bill_id = b
                    /\ p.status = "completed"
            /\ products' = products
            /\ new.items = old.items]_vars

\* C19: while a bill exists none of its payments is removed, and none changes
\* amount, method, payment_id or status, but for the status set to refunded by
\* cancel_bill.
C19_PaymentLogAppendOnly ==
    [][\A p \in payments :
            p.bill_id \in DOMAIN bills' =>
                \/ p \in payments'
                \/ /\ last'.op = "cancelBill"
                   /\ [p EXCEPT !.status = "refunded"] \in payments']_vars

\* a payment update added a third payment to the two the bill had
C19_Witness ==
    /\ last.op = "updatePayment" /\ last.result = "ok"
    /\ Cardinality(BillPayments(last.bill)) = 3

\* C20: the status of every payment is one of completed, pending, failed,
\* refunded.
C20_PaymentStatusInDomain ==
    \A p \in payments : p.status \in {"completed", "pending", "failed", "refunded"}

\* the units of product p in the rows of the given status
RECURSIVE ClaimQuantity(_, _, _)
ClaimQuantity(items, status, p) ==
    IF items = <<>> THEN 0
    ELSE (IF Head(items).product_id = p /\ Head(items).item_status = status
          THEN Head(items).quantity ELSE 0)
         + ClaimQuantity(Tail(items), status, p)

\* the units of product p in the pending rows of the bills named
RECURSIVE ClaimPending(_, _)
ClaimPending(ids, p) ==
    IF ids = {} THEN 0
    ELSE LET b == CHOOSE x \in ids : TRUE
         IN  ClaimQuantity(bills[b].items, "pending", p) + ClaimPending(ids \ {b}, p)

C22_BillNumbersUnique ==
    \A a, b \in DOMAIN bills : a # b => bills[a].bill_number # bills[b].bill_number

\* two requests drew the same number: one is stored, the other was refused
C22_Witness ==
    /\ \E c \in Clients :
        /\ sess[c].pc = "done" /\ sess[c].result = "IntegrityError"
        /\ sess[c].bill_id = 0
        /\ sess[c].bill_number \in UsedBillNumbers
    /\ \E c \in Clients : sess[c].pc = "done" /\ sess[c].result = "ok"

\* C24: create_bill refuses, with nothing changed, a request with no item or
\* with a line of quantity <= 0; every bill is created with at least one item
\* and every stored item has a quantity > 0.
C24_CreateBillRejectsEmptyAndNonPositive ==
    [][(last'.op = "createBill") =>
        /\ last'.result \in {"EmptyBill", "InvalidQuantity"} =>
                (products' = products /\ bills' = bills /\ payments' = payments)
        /\ last'.result = "ok" =>
                /\ Len(bills'[last'.bill].items) >= 1
                /\ \A k \in DOMAIN last'.lines : last'.lines[k].quantity > 0
        /\ \A it \in ClaimItems(bills') : it.quantity > 0]_vars

\* a request refused for a quantity of 0 on its second line
C24_Witness ==
    /\ last.op = "createBill"
    /\ last.result = "InvalidQuantity"
    /\ last.failed_at = 2

\* C27: every product's stored amount is sell_price * quantity for its current
\* quantity.
C27_AmountIsDerived ==
    \A p \in DOMAIN products :
        products[p].amount = products[p].sell_price * products[p].quantity

\* C28: with requests served one at a time and no product edited, for every
\* product the current quantity, plus the units of its pending items, plus the
\* units of its items ever completed, is the initial quantity.
C28_StockConserved ==
    \A p \in ProductIds :
        products[p].quantity + ClaimPending(DOMAIN bills, p) + completedEver[p]
            = InitQuantity[p]

\* a bill was cancelled after one of its two items was completed
C28_Witness ==
    /\ last.op = "cancelBill" /\ last.result = "ok"
    /\ Len(last.items) = 2
    /\ last.items[1].item_status # last.items[2].item_status
    /\ \E p \in ProductIds : completedEver[p] > 0

\* C29: every update_bill_payment on an existing bill succeeds, whatever the
\* clock, and inserts a payment whose payment_id no stored payment has; a call
\* that fails leaves the bill's paid_amount, payment_method, change_amount and
\* payment_status as they were.
C29_EveryPaymentUpdateSucceeds ==
    [][(last'.op = "updatePayment" /\ last'.bill \in DOMAIN bills) =>
        /\ last'.result = "ok"
        /\ \E p \in payments' \ payments :
                \A q \in payments : q.payment_id # p.payment_id
        /\ last'.result # "ok" =>
                /\ bills'[last'.bill].paid_amount = bills[last'.bill].paid_amount
                /\ bills'[last'.bill].payment_method = bills[last'.bill].payment_method
                /\ bills'[last'.bill].change_amount = bills[last'.bill].change_amount
                /\ bills'[last'.bill].payment_status = bills[last'.bill].payment_status]_vars

\* C30: every stored bill has at least one item.
C30_BillHasAnItem ==
    \A b \in DOMAIN bills : Len(bills[b].items) >= 1

\* C23: bill-number generation always ends: a create_bill request that is
\* drawing candidate numbers leaves the loop, with a number or with an error,
\* also when every number it can draw is stored.
C23_BillNumberLoopEnds ==
    (sess["c1"].pc = "generate") ~> (sess["c1"].pc # "generate")

\* C25: the snapshot of an item (product name, sell_price, quantity, total)
\* never changes while the item is stored, whatever is done to its product or
\* its bill; void_bill_item and update_bill_payment store totals summed from
\* the snapshot line totals of the bill's items.
C25_SnapshotImmutable ==
    [][/\ \A it \in ClaimItems(bills), next \in ClaimItems(bills') :
            it.id = next.id =>
                /\ next.product_name = it.product_name
                /\ next.sell_price = it.sell_price
                /\ next.quantity = it.quantity
                /\ next.total = it.total
                /\ next.total = it.sell_price * it.quantity
       /\ (last'.op \in {"voidItem", "updatePayment"} /\ last'.result = "ok") =>
            LET bill == bills'[last'.bill] IN
            /\ bill.subtotal = ClaimSubtotal(bill.items)
            /\ bill.total = ClaimTotal(bill, bill.subtotal)]_vars

\* an item was voided from a bill whose other item is of a product renamed
\* and repriced since
C25_Witness ==
    /\ last.op = "voidItem" /\ last.result = "ok"
    /\ \E k \in DOMAIN bills[last.bill].items :
        LET it == bills[last.bill].items[k] IN
        /\ products[it.product_id].sell_price # it.sell_price
        /\ products[it.product_id].name # it.product_name
        /\ bills[last.bill].subtotal = it.total

\* C26: when a create_bill and a void_bill_item that restocks have run
\* concurrently and both succeeded, every product's stock is its stock when
\* they began, minus the units billed, plus the units restored.
C26_ConcurrentStockSerializable ==
    (/\ sess["c1"].pc = "done" /\ sess["c1"].result = "ok"
     /\ sess["c2"].pc = "done" /\ sess["c2"].result = "ok") =>
        \A p \in ProductIds :
            LET restored == Requested(sess["c2"].lines, p)
                began == InitQuantity[p] - restored
                            - ClaimQuantity(bills[1].items, "pending", p)
            IN  products[p].quantity = began - sold[p] + restored

====
